---- MODULE Spec2Model ----
(***************************************************************************)
(* A model of proplot/axes/geo.py: the label-array conversion of           *)
(* GeoAxes, and the extent, projection and gridline state of CartopyAxes   *)
(* and BasemapAxes.                                                        *)
(*                                                                         *)
(* Python values are modelled as follows.  None is the integer None.       *)
(* Booleans that end up in label arrays are the integers 0 and 1 (Python's *)
(* bool is an int: True == 1).  A string is the sequence of its            *)
(* characters.  A longitude or latitude is a fixed-point integer: one      *)
(* degree is Deg units and eps (1e-10 in the source) is Eps, the smallest  *)
(* unit.                                                                   *)
(***************************************************************************)
EXTENDS Integers, Sequences, FiniteSets, TLC

\* ------------------------------------------------------------------ bounds
\* longest string given as a label spec
MaxStrLen == 3
\* longest array given as a label spec
MaxArrLen == 5

\* ------------------------------------------------------- value encodings
None == -999999
Eps == 1
Deg == 1000

\* characters a label string is built from; "x" is any other character
Chars == {"l", "r", "b", "t", "x"}

\* 'lrbt' of _to_label_array
lrbt == <<"l", "r", "b", "t">>

SeqsUpTo(S, n) == UNION {[1..k -> S] : k \in 0..n}

\* the labels arguments: None, a scalar bool, a string, an array of bools
LabelInputs ==
    {[kind |-> "none", val |-> <<>>]}
    \cup {[kind |-> "scalar", val |-> <<b>>] : b \in {0, 1}}
    \cup {[kind |-> "str", val |-> s] : s \in SeqsUpTo(Chars, MaxStrLen)}
    \cup {[kind |-> "array", val |-> a] : a \in SeqsUpTo({0, 1}, MaxArrLen)}

\* char in labels
CharIn(c, s) == \E i \in 1..Len(s) : s[i] = c

\* np.atleast_1d(labels): a scalar becomes a length-1 array
atleast_1d(labels) == labels.val

Returned(array) == [raised |-> "", name |-> "", array |-> array]
Raised(exc, name) == [raised |-> exc, name |-> name, array |-> <<>>]

\* the 2-entry branch of _to_label_array
Pad2(array, lon) ==
    IF lon THEN <<0, 0>> \o array ELSE array \o <<0, 0>>

\* the string branch of _to_label_array
FromStringFirstOnly(s) ==
    [i \in 1..4 |-> IF Len(s) > 0 /\ s[1] = lrbt[i] THEN 1 ELSE 0]

FromString(s) ==
    [i \in 1..4 |-> IF CharIn(lrbt[i], s) THEN 1 ELSE 0]

\* the 1-entry branch of _to_label_array
Pad1First(array) == <<0>> \o array

Pad1(array) == array \o <<0>>

\* the length test that ends _to_label_array
BadLengthNo3(n) == n # 4 /\ n # 3

BadLength(n) == n # 4

\* GeoAxes._to_label_array(labels, lon)
to_label_array(labels, lon) ==
    IF labels.kind = "none" THEN Returned(<<None, None, None, None>>)
    ELSE
        LET array0 == IF labels.kind = "str" THEN FromString(labels.val)
                      ELSE atleast_1d(labels)
            array1 == IF Len(array0) = 1 THEN Pad1(array0) ELSE array0
        IN  IF Len(array1) = 2 THEN Returned(Pad2(array1, lon))
            ELSE IF BadLength(Len(array1))
                 THEN Raised("ValueError", IF lon THEN "lon" ELSE "lat")
                 ELSE Returned(array1)

\* --------------------------------------------------- projection objects
\* CartopyAxes._proj_north, _proj_south, _proj_polar
proj_north == {"NorthPolarStereo", "NorthPolarGnomonic",
               "NorthPolarAzimuthalEquidistant",
               "NorthPolarLambertAzimuthalEqualArea"}

proj_south == {"SouthPolarStereo", "SouthPolarGnomonic",
               "SouthPolarAzimuthalEquidistant",
               "SouthPolarLambertAzimuthalEqualArea"}

proj_polar == proj_north \cup proj_south

\* the classes derived from cartopy.crs.Projection
ProjectionClasses == proj_polar \cup {"PlateCarree", "Mercator", "Robinson"}

\* the classes derived from cartopy.crs.CRS: the projections and the
\* geodetic coordinate systems, which are not projections
CRSClasses == ProjectionClasses \cup {"Geodetic"}

\* None where an object is expected
NoneObj == [cls |-> "NoneType"]

\* None where a sequence is expected
NoneSeq == <<>>

\* a cartopy CRS object with its proj4 parameter lon_0
Crs(cls, lon_0) == [cls |-> cls, lon_0 |-> lon_0]

\* a Basemap object: its projection name, its projparams lon_0, its
\* boundinglat attribute and its (lonmin, lonmax, latmin, latmax) attributes,
\* None and NoneSeq where the object has no such attribute
Basemap(projection, lon_0, boundinglat, bounds) ==
    [cls |-> "Basemap", projection |-> projection, lon_0 |-> lon_0,
     boundinglat |-> boundinglat, bounds |-> bounds]

\* the objects handed to the constructors and the projection setters
Objects ==
    { Crs("PlateCarree", 0), Crs("PlateCarree", 90 * Deg), Crs("Robinson", 0),
      Crs("NorthPolarStereo", 0), Crs("NorthPolarGnomonic", 0),
      Crs("SouthPolarStereo", 0), Crs("SouthPolarGnomonic", 0),
      Crs("Geodetic", 0), NoneObj,
      Basemap("cyl", 0, None, <<-180 * Deg, 180 * Deg, -90 * Deg, 90 * Deg>>),
      Basemap("robin", 90 * Deg, None, NoneSeq),
      Basemap("npstere", 0, 60 * Deg, NoneSeq),
      Basemap("spaeqd", 0, None, NoneSeq) }

\* isinstance(obj, ccrs.Projection)
IsProjection(obj) == obj.cls \in ProjectionClasses

\* isinstance(obj, ccrs.CRS)
IsCRS(obj) == obj.cls \in CRSClasses

\* isinstance(obj, mbasemap.Basemap)
IsBasemap(obj) == obj.cls = "Basemap"

\* _not_none(a, b) on label specs: the first argument that is not None
not_none(a, b) == IF a.kind # "none" THEN a ELSE b

\* ---------------------------------------------------------------- _GeoAxis
\* _GeoAxis.__init__: the view interval and the isDefault flags (the
\* locators and formatters themselves belong to matplotlib)
GeoAxis ==
    [_interval |-> NoneSeq, _latmax |-> None,
     isDefault_majfmt |-> TRUE, isDefault_majloc |-> TRUE,
     isDefault_minloc |-> TRUE]

\* _GeoAxis.set_major_formatter
set_major_formatter(axis, default) == [axis EXCEPT !.isDefault_majfmt = default]

\* _GeoAxis.set_major_locator
set_major_locator(axis, default) == [axis EXCEPT !.isDefault_majloc = default]

\* _GeoAxis.set_minor_locator: it assigns isDefault_majfmt
set_minor_locator(axis, default) == [axis EXCEPT !.isDefault_majfmt = default]

\* _LonAxis.__init__
LonAxis ==
    set_minor_locator(
        set_major_locator(set_major_formatter(GeoAxis, TRUE), TRUE), TRUE)

\* _LatAxis.__init__
LatAxis(latmax) ==
    set_minor_locator(
        set_major_locator(
            set_major_formatter([GeoAxis EXCEPT !._latmax = latmax], TRUE),
            TRUE), TRUE)

\* ------------------------------------------------------------ CartopyAxes
\* A run of a method is a record [ax, log, raised]: the axes object, what
\* the method did to the libraries underneath (the extents handed to
\* set_extent in call order, the number of warnings issued, the
\* gridliners created ("major" or "minor") in order of creation, the
\* drawmeridians and drawparallels calls in call order, what was done to
\* the geographic features in order, the options listed by the message of
\* an invalid resolution, and the label arrays of the caller as they are once
\* _update_gridlines is done with them, the lonlim and latlim of the caller
\* as they are once _update_extent has built an extent from them), and the
\* exception it raised, if any.
NoLog ==
    [set_extent |-> <<>>, warnings |-> 0, gridliners |-> <<>>,
     draw |-> <<>>, arrays |-> <<>>, lims |-> <<>>,
     features |-> <<>>, options |-> {}]

Run(a) == [ax |-> a, log |-> NoLog, raised |-> ""]

Warn(s) == [s EXCEPT !.log.warnings = @ + 1]

\* an object of the class before __init__ has assigned anything
NewObject(cls) == [cls |-> cls]

\* CartopyAxes._get_lon0
get_lon0(a) == a._map_projection.lon_0

\* GeoAxes._set_view_intervals
set_view_intervals(a, extent) ==
    [a EXCEPT !._lonaxis._interval = SubSeq(extent, 1, 2),
              !._lataxis._interval = SubSeq(extent, 3, 4)]

\* CartopyAxes.set_extent with a PlateCarree crs: records the view
\* intervals, then hands the extent to cartopy's set_extent.  The two
\* gridliners exist whenever it runs (format has run in __init__).
set_extent(s, extent) ==
    [s EXCEPT !.ax = [set_view_intervals(@, extent) EXCEPT !.extent = extent],
              !.log.set_extent = Append(@, extent)]

\* the extent cartopy's set_global leaves, as get_extent reports it
GlobalExtent(lon0) == <<lon0 - 180 * Deg, lon0 + 180 * Deg, -90 * Deg, 90 * Deg>>

\* CartopyAxes.set_global
set_global(s) ==
    LET g == GlobalExtent(get_lon0(s.ax))
    IN  [s EXCEPT !.ax = [set_view_intervals(@, g) EXCEPT !.extent = g]]

\* the polar branch of _update_extent: when set_extent is due
PolarDue(boundinglat, a) ==
    boundinglat # None /\ boundinglat # a._boundinglat

\* the rectangular branch of _update_extent: when set_extent is due
RectDueWithBoundinglat(lonlim, latlim, boundinglat) ==
    lonlim # NoneSeq \/ latlim # NoneSeq \/ boundinglat # None

RectDue(lonlim, latlim, boundinglat) ==
    lonlim # NoneSeq \/ latlim # NoneSeq

\* "lonlim = list(lonlim or [None, None])": the sequence of the caller and
\* the local list
CopyLim(lim) ==
    [caller |-> lim, local |-> IF lim # NoneSeq THEN lim ELSE <<None, None>>]

\* the rectangular extent of _update_extent
RectExtentEpsOnDefault(lon0, lonlim, latlim) ==
    LET lonlim0 == CopyLim(lonlim).local
        latlim0 == CopyLim(latlim).local
        lonmin == IF lonlim0[1] = None THEN lon0 - 180 * Deg + Eps ELSE lonlim0[1]
        lonmax == IF lonlim0[2] = None THEN lon0 + 180 * Deg ELSE lonlim0[2]
        latmin == IF latlim0[1] = None THEN -90 * Deg ELSE latlim0[1]
        latmax == IF latlim0[2] = None THEN 90 * Deg ELSE latlim0[2]
    IN  <<lonmin, lonmax, latmin, latmax>>

RectExtent(lon0, lonlim, latlim) ==
    LET lonlim0 == CopyLim(lonlim).local
        latlim0 == CopyLim(latlim).local
        lonmin == IF lonlim0[1] = None THEN lon0 - 180 * Deg ELSE lonlim0[1]
        lonmax == IF lonlim0[2] = None THEN lon0 + 180 * Deg ELSE lonlim0[2]
        latmin == IF latlim0[1] = None THEN -90 * Deg ELSE latlim0[1]
        latmax == IF latlim0[2] = None THEN 90 * Deg ELSE latlim0[2]
    IN  <<lonmin + Eps, lonmax, latmin, latmax>>

\* the polar extent of _update_extent
PolarExtent(lon0, boundinglat, north) ==
    <<lon0 - 180 * Deg + Eps, lon0 + 180 * Deg - Eps, boundinglat,
      IF north THEN 90 * Deg ELSE -90 * Deg>>

\* which branch of _update_extent a projection takes
IsPolarAxes(a) == a._map_projection.cls \in proj_polar

\* CartopyAxes._update_extent
update_extent(s, lonlim, latlim, boundinglat) ==
    LET a == s.ax
        lon0 == get_lon0(a)
        north == a._map_projection.cls \in proj_north
    IN  IF IsPolarAxes(a)
        THEN LET s1 == IF lonlim # NoneSeq \/ latlim # NoneSeq
                       THEN Warn(s) ELSE s
             IN  IF PolarDue(boundinglat, a)
                 THEN LET s2 == set_extent(s1, PolarExtent(lon0, boundinglat, north))
                      IN  [s2 EXCEPT !.ax._boundinglat = boundinglat]
                 ELSE s1
        ELSE LET s1 == IF boundinglat # None THEN Warn(s) ELSE s
             IN  IF RectDue(lonlim, latlim, boundinglat)
                 THEN [set_extent(s1, RectExtent(lon0, lonlim, latlim))
                          EXCEPT !.log.lims = <<CopyLim(lonlim).caller,
                                                CopyLim(latlim).caller>>]
                 ELSE s1

\* a gridliner as gridlines() of cartopy returns it: lines on, and the
\* label toggles at their cartopy defaults
Gridliner ==
    [cls |-> "Gridliner", xlines |-> 1, ylines |-> 1,
     left_labels |-> 1, right_labels |-> 1, bottom_labels |-> 1, top_labels |-> 1]

\* CartopyAxes._toggle_gridliner_labels: the attribute names differ between
\* cartopy versions, the four toggles do not
toggle_gridliner_labels(gl, left, right, bottom, top) ==
    [gl EXCEPT !.left_labels = IF left # None THEN left ELSE @,
               !.right_labels = IF right # None THEN right ELSE @,
               !.bottom_labels = IF bottom # None THEN bottom ELSE @,
               !.top_labels = IF top # None THEN top ELSE @]

\* CartopyAxes._init_gridlines
init_gridlines ==
    toggle_gridliner_labels([Gridliner EXCEPT !.xlines = 0, !.ylines = 0],
                            0, 0, 0, 0)

\* CartopyAxes._update_gridlines: the line toggles (the styles and the
\* fixed locators are the libraries' business)
update_gridlines(gl, longrid, latgrid) ==
    [gl EXCEPT !.xlines = IF longrid # None THEN longrid ELSE @,
               !.ylines = IF latgrid # None THEN latgrid ELSE @]

\* any(array) of Python: None and 0 are false
any(array) == \E i \in 1..Len(array) : array[i] # None /\ array[i] # 0

\* the sides _update_major_gridlines takes from latarray and from lonarray
ToggleArgs(latarray, lonarray) ==
    SubSeq(latarray, 1, 2) \o SubSeq(lonarray, 3, 4)

\* "not self._gridlines_major", "not self._gridlines_minor": a gridliner
\* object is true, None is not
NoGridlinerEver(gl) == TRUE

NoGridliner(gl) == gl = NoneObj

\* CartopyAxes._update_major_gridlines
update_major_gridlines(s, version, longrid, latgrid, lonarray, latarray) ==
    LET a == s.ax
        create == NoGridliner(a._gridlines_major)
        gl0 == IF create THEN init_gridlines ELSE a._gridlines_major
        gl1 == update_gridlines(gl0, longrid, latgrid)
        old == version < 18
               /\ a._map_projection.cls \notin {"Mercator", "PlateCarree"}
        latwarn == old /\ any(latarray)
        lonwarn == old /\ any(lonarray)
        latarray1 == IF latwarn THEN <<0, 0, 0, 0>> ELSE latarray
        lonarray1 == IF lonwarn THEN <<0, 0, 0, 0>> ELSE lonarray
        args == ToggleArgs(latarray1, lonarray1)
        gl2 == toggle_gridliner_labels(gl1, args[1], args[2], args[3], args[4])
    IN  [s EXCEPT !.ax._gridlines_major = gl2,
                  !.log.gridliners = IF create THEN Append(@, "major") ELSE @,
                  !.log.warnings = @ + (IF latwarn THEN 1 ELSE 0)
                                     + (IF lonwarn THEN 1 ELSE 0)]

\* CartopyAxes._update_minor_gridlines
update_minor_gridlines(s, longrid, latgrid) ==
    LET a == s.ax
        create == NoGridliner(a._gridlines_minor)
        gl0 == IF create THEN init_gridlines ELSE a._gridlines_minor
    IN  [s EXCEPT !.ax._gridlines_minor = update_gridlines(gl0, longrid, latgrid),
                  !.log.gridliners = IF create THEN Append(@, "minor") ELSE @]

\* the keys of constructor.CARTOPY_RESOS, as the docstring of format lists
\* them
CARTOPY_RESOS == {"lo", "med", "hi", "x-hi", "xx-hi"}

\* "reso = constructor.CARTOPY_RESOS[reso]" finds the key
ResoValidAlways(reso) == TRUE

ResoValid(reso) == reso \in CARTOPY_RESOS

\* the geographic features followed here, one drawn as a patch and one drawn
\* as lines, in the order of the loop
FeatureNames == <<"land", "coast">>

\* the features whose colour is an edge colour
LineFeatures == {"coast", "rivers", "borders", "innerborders"}

\* the keyword arguments that the loop adds to those of the rc category
FeatureKw(name) ==
    IF name \in LineFeatures THEN "edgecolor" ELSE "nolinewidth"

\* the artist of a NaturalEarthFeature added to the axes
FeatureArtist(name, reso) ==
    [cls |-> "FeatureArtist", name |-> name, reso |-> reso, visible |-> 1,
     _kwargs |-> "none"]

\* one turn of the loop of CartopyAxes._update_features: b is the setting
\* of the feature in the rc context (None when it is not there)
update_feature(s, name, b, reso) ==
    LET feat == s.ax.features[name]
        drawn == feat # NoneObj
        feat1 == IF drawn THEN feat ELSE FeatureArtist(name, reso)
        s1 == IF drawn THEN s
              ELSE [s EXCEPT !.log.features = Append(@, <<"create", name>>)]
    IN  IF b = None THEN s
        ELSE IF b = 0
        THEN IF drawn
             THEN [s EXCEPT !.ax.features[name].visible = 0,
                            !.log.features = Append(@, <<"hide", name>>)]
             ELSE s
        ELSE [s1 EXCEPT !.ax.features[name] =
                            [feat1 EXCEPT !._kwargs = FeatureKw(name)],
                        !.log.features = Append(@, <<"style", name>>)]

\* CartopyAxes._update_features: reso is rc['reso'], land and coast are the
\* rc settings of the two features
update_features(s, reso, land, coast) ==
    IF ~ResoValid(reso)
    THEN [s EXCEPT !.raised = "ValueError", !.log.options = CARTOPY_RESOS]
    ELSE update_feature(update_feature(s, FeatureNames[1], land, reso),
                        FeatureNames[2], coast, reso)

\* no label spec
NoLabels == [kind |-> "none", val |-> <<>>]

\* the keyword arguments of format that the model follows, at their defaults
DefaultCall ==
    [lonlim |-> NoneSeq, latlim |-> NoneSeq, boundinglat |-> None,
     labels |-> NoLabels, lonlabels |-> NoLabels, latlabels |-> NoLabels,
     longrid |-> None, latgrid |-> None,
     longridminor |-> None, latgridminor |-> None,
     latmax |-> None,
     lonlocator |-> None, latlocator |-> None,
     lonminorlocator |-> None, latminorlocator |-> None,
     lonformatter |-> None, latformatter |-> None,
     reso |-> "lo", land |-> None, coast |-> None]

\* ------------------------------------------------------------ BasemapAxes
\* BasemapAxes._proj_north, _proj_south, _proj_polar
basemap_proj_north == {"npaeqd", "nplaea", "npstere"}

basemap_proj_south == {"spaeqd", "splaea", "spstere"}

basemap_proj_polar == basemap_proj_north \cup basemap_proj_south

\* BasemapAxes._get_lon0
basemap_get_lon0(a) == a._map_projection.lon_0

\* the view extent BasemapAxes.__init__ works out from the Basemap object
BasemapExtent(obj) ==
    LET lon0 == obj.lon_0
        boundinglat == IF obj.boundinglat = None THEN 0 ELSE obj.boundinglat
    IN  IF obj.projection \in basemap_proj_polar
        THEN IF obj.projection \in basemap_proj_north
             THEN <<-180 * Deg + lon0, 180 * Deg + lon0, boundinglat, 90 * Deg>>
             ELSE <<-180 * Deg + lon0, 180 * Deg + lon0, -90 * Deg, boundinglat>>
        ELSE IF obj.bounds = NoneSeq
             THEN <<180 * Deg - lon0, 180 * Deg + lon0, -90 * Deg, 90 * Deg>>
             ELSE obj.bounds

\* the default latmax of BasemapAxes.__init__
BasemapLatmax(obj) ==
    IF obj.projection \in basemap_proj_polar THEN 80 * Deg ELSE 90 * Deg

\* BasemapAxes._update_extent: a warning and nothing else
basemap_update_extent_applies(s, lonlim, latlim, boundinglat) ==
    IF lonlim # NoneSeq \/ latlim # NoneSeq \/ boundinglat # None
    THEN [Warn(s) EXCEPT !.ax._lonaxis._interval =
                             IF lonlim # NoneSeq THEN lonlim ELSE @]
    ELSE s

basemap_update_extent(s, lonlim, latlim, boundinglat) ==
    IF lonlim # NoneSeq \/ latlim # NoneSeq \/ boundinglat # None
    THEN Warn(s) ELSE s

\* array[2:] = array[2:][::-1]
ReverseAll(array) == <<array[4], array[3], array[2], array[1]>>

lrbt_to_lrtb(array) == <<array[1], array[2], array[4], array[3]>>

\* "array = list(array); array[2:] = array[2:][::-1]": the array of the
\* caller and the local array once both statements have run
CorrectArray(array) == [caller |-> array, local |-> lrbt_to_lrtb(array)]

\* getattr(self, f'_{name}lines_{which}')
GetLines(a, name, which) ==
    IF name = "lon"
    THEN IF which = "major" THEN a._lonlines_major ELSE a._lonlines_minor
    ELSE IF which = "major" THEN a._latlines_major ELSE a._latlines_minor

\* setattr(self, f'_{name}lines_{which}', objs) and the axis flags
SetLines(a, name, which, objs, axis) ==
    IF name = "lon"
    THEN IF which = "major"
         THEN [a EXCEPT !._lonlines_major = objs, !._lonaxis = axis]
         ELSE [a EXCEPT !._lonlines_minor = objs, !._lonaxis = axis]
    ELSE IF which = "major"
         THEN [a EXCEPT !._latlines_major = objs, !._lataxis = axis]
         ELSE [a EXCEPT !._latlines_minor = objs, !._lataxis = axis]

\* the isDefault flags _update_gridlines reads and sets
FlagsOfLocatorOnly(which) ==
    IF which = "major" THEN {"isDefault_majloc"} ELSE {"isDefault_minloc"}

FlagsOf(which) ==
    IF which = "major" THEN {"isDefault_majloc", "isDefault_majfmt"}
    ELSE {"isDefault_minloc"}

\* one round of the loop of BasemapAxes._update_gridlines
basemap_update_axis(s, name, which, grid, array) ==
    LET a == s.ax
        arr == CorrectArray(array)
        axis == IF name = "lon" THEN a._lonaxis ELSE a._lataxis
        objs == GetLines(a, name, which)
        attrs == FlagsOf(which)
        rebuild == \/ objs = NoneObj
                   \/ \E i \in 1..Len(arr.local) : arr.local[i] # None
                   \/ \E f \in attrs : ~axis[f]
        axis1 == IF rebuild
                 THEN [f \in DOMAIN axis |-> IF f \in attrs THEN TRUE ELSE axis[f]]
                 ELSE axis
        objs1 == IF rebuild
                 THEN [cls |-> "lines", labels |-> arr.local, visible |-> 1]
                 ELSE objs
        objs2 == IF grid # None THEN [objs1 EXCEPT !.visible = grid] ELSE objs1
        call == [method |-> IF name = "lon" THEN "drawmeridians"
                                            ELSE "drawparallels",
                 which |-> which, labels |-> arr.local]
    IN  [s EXCEPT !.ax = SetLines(a, name, which, objs2, axis1),
                  !.log.draw = IF rebuild THEN Append(@, call) ELSE @,
                  !.log.arrays = Append(@, arr.caller)]

\* BasemapAxes._update_gridlines
basemap_update_gridlines(s, which, longrid, latgrid, lonarray, latarray) ==
    basemap_update_axis(
        basemap_update_axis(s, "lon", which, longrid, lonarray),
        "lat", which, latgrid, latarray)

\* BasemapAxes._update_major_gridlines
basemap_update_major_gridlines(s, longrid, latgrid, lonarray, latarray) ==
    basemap_update_gridlines(s, "major", longrid, latgrid, lonarray, latarray)

\* BasemapAxes._update_minor_gridlines
basemap_update_minor_gridlines(s, longrid, latgrid) ==
    basemap_update_gridlines(s, "minor", longrid, latgrid,
                             <<None, None, None, None>>,
                             <<None, None, None, None>>)

\* ----------------------------------------------------------------- format
\* the part of GeoAxes.format that sets latmax, locators and formatters
format_axes(a, c) ==
    LET lon1 == IF c.lonlocator # None
                THEN set_major_locator(a._lonaxis, FALSE) ELSE a._lonaxis
        lat0 == IF c.latmax # None
                THEN [a._lataxis EXCEPT !._latmax = c.latmax] ELSE a._lataxis
        lat1 == IF c.latlocator # None
                THEN set_major_locator(lat0, FALSE) ELSE lat0
        lon2 == IF c.lonminorlocator # None
                THEN set_minor_locator(lon1, FALSE) ELSE lon1
        lat2 == IF c.latminorlocator # None
                THEN set_minor_locator(lat1, FALSE) ELSE lat1
        lon3 == IF c.lonformatter # None
                THEN set_major_formatter(lon2, FALSE) ELSE lon2
        lat3 == IF c.latformatter # None
                THEN set_major_formatter(lat2, FALSE) ELSE lat2
    IN  [a EXCEPT !._lonaxis = lon3, !._lataxis = lat3]

\* GeoAxes.format: the label arrays first (a bad label spec raises before
\* anything is changed), then latmax, locators and formatters, then the
\* worker functions of the subclass
format(s, version, c) ==
    LET lonres == to_label_array(not_none(c.lonlabels, c.labels), TRUE)
        latres == to_label_array(not_none(c.latlabels, c.labels), FALSE)
        s0 == [s EXCEPT !.ax = format_axes(@, c)]
    IN  IF lonres.raised # "" THEN [s EXCEPT !.raised = lonres.raised]
        ELSE IF latres.raised # "" THEN [s EXCEPT !.raised = latres.raised]
        ELSE IF s.ax.cls = "CartopyAxes"
        THEN LET s1 == update_extent(s0, c.lonlim, c.latlim, c.boundinglat)
                 sf == update_features(s1, c.reso, c.land, c.coast)
                 s2 == update_major_gridlines(sf, version, c.longrid, c.latgrid,
                                              lonres.array, latres.array)
             IN  IF sf.raised # "" THEN sf
                 ELSE update_minor_gridlines(s2, c.longridminor,
                                             c.latgridminor)
        ELSE LET s1 == basemap_update_extent(s0, c.lonlim, c.latlim,
                                             c.boundinglat)
                 s2 == basemap_update_major_gridlines(
                           s1, c.longrid, c.latgrid, lonres.array, latres.array)
             IN  basemap_update_minor_gridlines(s2, c.longridminor,
                                                c.latgridminor)

\* GeoAxes.__init__: resets the bounding latitude, then the base class
\* constructor calls format() with no arguments
GeoAxesInit(s, version) ==
    format([s EXCEPT !.ax._boundinglat = None], version, DefaultCall)

\* the attributes BasemapAxes.__init__ assigns before super().__init__
BasemapFields(obj) ==
    [cls |-> "BasemapAxes",
     _map_projection |-> obj,
     _boundinglat |-> None,
     _map_boundary |-> NoneObj,
     _has_recurred |-> FALSE,
     _lonlines_major |-> NoneObj,
     _lonlines_minor |-> NoneObj,
     _latlines_major |-> NoneObj,
     _latlines_minor |-> NoneObj,
     _lonaxis |-> LonAxis,
     _lataxis |-> LatAxis(BasemapLatmax(obj))]

\* the type test of BasemapAxes.__init__
BasemapInitAccepts(obj) == IsBasemap(obj)

\* BasemapAxes.__init__(map_projection=obj)
BasemapAxesInit(obj, version) ==
    IF ~BasemapInitAccepts(obj)
    THEN [Run(NewObject("BasemapAxes")) EXCEPT !.raised = "ValueError"]
    ELSE GeoAxesInit(
             Run(set_view_intervals(BasemapFields(obj), BasemapExtent(obj))),
             version)

\* the type test of the BasemapAxes.projection setter
BasemapSetterStores(obj) == TRUE

BasemapSetterAccepts(obj) == IsBasemap(obj)

\* the BasemapAxes.projection setter
BasemapSetProjection(s, obj) ==
    IF ~BasemapSetterAccepts(obj) THEN [s EXCEPT !.raised = "ValueError"]
    ELSE [s EXCEPT !.ax._map_projection = obj]

\* the *default* bounding latitudes of CartopyAxes.__init__
DefaultBoundinglat(obj) ==
    IF obj.cls \notin proj_polar THEN None
    ELSE IF obj.cls = "NorthPolarGnomonic" THEN 30 * Deg
    ELSE IF obj.cls = "SouthPolarGnomonic" THEN -30 * Deg
    ELSE 0

\* the default latmax of CartopyAxes.__init__
DefaultLatmax(obj) == IF obj.cls \in proj_polar THEN 80 * Deg ELSE 90 * Deg

\* the attributes CartopyAxes.__init__ assigns before super().__init__
CartopyFields(obj) ==
    [cls |-> "CartopyAxes",
     _boundinglat |-> DefaultBoundinglat(obj),
     _map_projection |-> obj,
     _gridlines_major |-> NoneObj,
     _gridlines_minor |-> NoneObj,
     _lonaxis |-> LonAxis,
     _lataxis |-> LatAxis(DefaultLatmax(obj)),
     extent |-> NoneSeq,
     features |-> [name \in {FeatureNames[i] : i \in DOMAIN FeatureNames}
                       |-> NoneObj]]

\* the type test of CartopyAxes.__init__
CartopyInitAccepts(obj) == IsProjection(obj)

\* CartopyAxes.__init__(map_projection=obj) under rc['cartopy.autoextent']
CartopyAxesInit(obj, version, autoextent) ==
    IF ~CartopyInitAccepts(obj)
    THEN [Run(NewObject("CartopyAxes")) EXCEPT !.raised = "ValueError"]
    ELSE LET s1 == GeoAxesInit(Run(CartopyFields(obj)), version)
         IN  IF autoextent THEN s1
             ELSE IF obj.cls \in proj_polar
                  THEN update_extent(s1, NoneSeq, NoneSeq, s1.ax._boundinglat)
                  ELSE set_global(s1)

\* the type test of the CartopyAxes.projection setter
CartopySetterAccepts(obj) == IsCRS(obj)

\* the CartopyAxes.projection setter
CartopySetProjection(s, obj) ==
    IF ~CartopySetterAccepts(obj) THEN [s EXCEPT !.raised = "ValueError"]
    ELSE [s EXCEPT !.ax._map_projection = obj]

\* ------------------------------------------------------------- variables
VARIABLES
    labels,     \* the labels argument of a _to_label_array call
    lon,        \* its lon flag
    result,     \* what the call returned or raised
    called,     \* whether the call has been made
    ax,         \* the axes object: its class and its attributes
    pc,         \* "new" before __init__, "live" after it, "failed" if it raised
    log,        \* what the last operation did to the libraries underneath
    raised,     \* the exception the last operation raised, "" if none
    lastcall,   \* the last operation and its arguments
    version,    \* _version_cartopy: 17 is cartopy 0.17, 18 is cartopy 0.18
    autoextent  \* rc['cartopy.autoextent']

labelVars == <<labels, lon, result, called>>

axesVars == <<ax, pc, log, raised, lastcall, version, autoextent>>

vars == <<labels, lon, result, called,
          ax, pc, log, raised, lastcall, version, autoextent>>

Pending == [raised |-> "pending", name |-> "", array |-> <<>>]

NoCall == [op |-> "none", obj |-> NoneObj, call |-> DefaultCall]

\* no axes: the state of the axes variables while _to_label_array is checked
AxesIdle ==
    /\ ax = NewObject("none")
    /\ pc = "idle"
    /\ log = NoLog
    /\ raised = ""
    /\ lastcall = NoCall
    /\ version = 18
    /\ autoextent = FALSE

\* no pending call: the state of the label variables while axes are checked
LabelIdle ==
    /\ labels = NoLabels
    /\ lon = TRUE
    /\ result = Pending
    /\ called = TRUE

\* ------------------------------------------------------- _to_label_array
LabelInit ==
    /\ labels \in LabelInputs
    /\ lon \in BOOLEAN
    /\ result = Pending
    /\ called = FALSE
    /\ AxesIdle

\* one call of GeoAxes._to_label_array
CallToLabelArray ==
    /\ ~called
    /\ result' = to_label_array(labels, lon)
    /\ called' = TRUE
    /\ UNCHANGED <<labels, lon>>
    /\ UNCHANGED axesVars

LabelNext == CallToLabelArray

SpecLabel == LabelInit /\ [][LabelNext]_vars

\* ------------------------------------------------------------ CartopyAxes
\* the lonlim, latlim and boundinglat arguments format is called with
LonLims == {NoneSeq, <<None, 40 * Deg>>, <<-20 * Deg, 40 * Deg>>}

LatLims == {NoneSeq, <<10 * Deg, None>>, <<10 * Deg, 50 * Deg>>}

BoundingLats == {None, 0, 30 * Deg}

ExtentCalls ==
    {[DefaultCall EXCEPT !.lonlim = a, !.latlim = b, !.boundinglat = c] :
        a \in LonLims, b \in LatLims, c \in BoundingLats}

\* the outcome of an operation on the axes
Done(s, op, obj, c) ==
    /\ ax' = s.ax
    /\ log' = s.log
    /\ raised' = s.raised
    /\ lastcall' = [op |-> op, obj |-> obj, call |-> c]

CartopyInit ==
    /\ pc = "new"
    /\ ax = NewObject("CartopyAxes")
    /\ log = NoLog
    /\ raised = ""
    /\ lastcall = NoCall
    /\ version \in {17, 18}
    /\ autoextent \in BOOLEAN
    /\ LabelIdle

\* CartopyAxes(map_projection=obj)
CartopyConstruct ==
    /\ pc = "new"
    /\ ax.cls = "CartopyAxes"
    /\ \E obj \in Objects :
          LET s == CartopyAxesInit(obj, version, autoextent)
          IN  /\ Done(s, "init", obj, DefaultCall)
              /\ pc' = IF s.raised = "" THEN "live" ELSE "failed"
    /\ UNCHANGED <<version, autoextent>>
    /\ UNCHANGED labelVars

\* ax.projection = obj
CartopyAssignProjection ==
    /\ pc = "live"
    /\ ax.cls = "CartopyAxes"
    /\ \E obj \in Objects :
          Done(CartopySetProjection(Run(ax), obj), "projection", obj, DefaultCall)
    /\ UNCHANGED <<pc, version, autoextent>>
    /\ UNCHANGED labelVars

\* ax.format(lonlim=..., latlim=..., boundinglat=...)
CartopyFormatExtent ==
    /\ pc = "live"
    /\ \E c \in ExtentCalls :
          Done(format(Run(ax), version, c), "format", NoneObj, c)
    /\ UNCHANGED <<pc, version, autoextent>>
    /\ UNCHANGED labelVars

CartopyNext ==
    \/ CartopyConstruct
    \/ CartopyAssignProjection
    \/ CartopyFormatExtent

SpecCartopy == CartopyInit /\ [][CartopyNext]_vars

\* ------------------------------------------- CartopyAxes: gridline labels
\* the boolean 4-tuples
FourTuples == {[kind |-> "array", val |-> a] : a \in [1..4 -> {0, 1}]}

\* the lonlabels, latlabels and grid arguments format is called with
LonLabels ==
    FourTuples \cup
    {NoLabels, [kind |-> "str", val |-> <<"l", "b">>],
     [kind |-> "array", val |-> <<1, 1, 1>>]}

LatLabels ==
    {NoLabels, [kind |-> "array", val |-> <<1, 0, 0, 1>>],
     [kind |-> "array", val |-> <<>>]}

LabelCalls ==
    {[DefaultCall EXCEPT !.lonlabels = a, !.latlabels = b] :
        a \in LonLabels, b \in LatLabels}
    \cup {[DefaultCall EXCEPT !.latlabels = a] : a \in FourTuples}
    \cup {[DefaultCall EXCEPT !.labels = [kind |-> "scalar", val |-> <<1>>]]}

GridCalls ==
    {[DefaultCall EXCEPT !.longrid = a, !.latgrid = a, !.longridminor = c] :
        a \in {None, 0, 1}, c \in {None, 1}}

\* the gridline labels do not depend on the extent: rc['cartopy.autoextent']
\* is on
GridInit == CartopyInit /\ autoextent

\* ax.format(lonlabels=..., latlabels=...) and ax.format(labels=...)
CartopyFormatLabels ==
    /\ pc = "live"
    /\ \E c \in LabelCalls :
          Done(format(Run(ax), version, c), "format", NoneObj, c)
    /\ UNCHANGED <<pc, version, autoextent>>
    /\ UNCHANGED labelVars

\* ax.format(longrid=..., latgrid=..., longridminor=...)
CartopyFormatGrid ==
    /\ pc = "live"
    /\ \E c \in GridCalls :
          Done(format(Run(ax), version, c), "format", NoneObj, c)
    /\ UNCHANGED <<pc, version, autoextent>>
    /\ UNCHANGED labelVars

\* the extent a caller hands to set_extent
UserExtents == {<<-20 * Deg, 40 * Deg, 10 * Deg, 50 * Deg>>}

\* ax.set_extent(extent); lastcall keeps the extent as a lonlim and a latlim
CartopySetExtent ==
    /\ pc = "live"
    /\ ax.cls = "CartopyAxes"
    /\ \E e \in UserExtents :
          Done(set_extent(Run(ax), e), "set_extent", NoneObj,
               [DefaultCall EXCEPT !.lonlim = SubSeq(e, 1, 2),
                                   !.latlim = SubSeq(e, 3, 4)])
    /\ UNCHANGED <<pc, version, autoextent>>
    /\ UNCHANGED labelVars

GridNext ==
    \/ CartopyConstruct
    \/ CartopyFormatLabels
    \/ CartopyFormatGrid
    \/ CartopySetExtent

SpecGrid == GridInit /\ [][GridNext]_vars

\* ----------------------------------------------------- cartopy features
\* rc['reso'] as format(reso=...) sets it: valid keys and invalid ones
Resos == {"lo", "hi", "110m", "high"}

FeatureCalls ==
    {[DefaultCall EXCEPT !.reso = r, !.land = l, !.coast = k] :
        r \in Resos, l \in {None, 0, 1}, k \in {None, 0, 1}}

\* ax.format(reso=..., land=..., coast=...)
CartopyFormatFeatures ==
    /\ pc = "live"
    /\ \E c \in FeatureCalls :
          Done(format(Run(ax), version, c), "format", NoneObj, c)
    /\ UNCHANGED <<pc, version, autoextent>>
    /\ UNCHANGED labelVars

FeaturesNext ==
    \/ CartopyConstruct
    \/ CartopyFormatFeatures
    \/ CartopyFormatGrid

SpecFeatures == GridInit /\ [][FeaturesNext]_vars

\* ------------------------------------------------------------ BasemapAxes
BasemapInit ==
    /\ pc = "new"
    /\ ax = NewObject("BasemapAxes")
    /\ log = NoLog
    /\ raised = ""
    /\ lastcall = NoCall
    /\ version = 18
    /\ autoextent = FALSE
    /\ LabelIdle

\* the locator and formatter arguments format is called with
LocatorCalls ==
    {[DefaultCall EXCEPT !.lonlocator = a, !.latformatter = b,
                         !.lonminorlocator = c] :
        a \in {None, 1}, b \in {None, 1}, c \in {None, 1}}

\* the label arguments format is called with
BasemapLabelCalls ==
    {[DefaultCall EXCEPT !.lonlabels = a, !.latlabels = b] :
        a \in FourTuples \cup {NoLabels},
        b \in {NoLabels, [kind |-> "array", val |-> <<1, 0, 0, 1>>]}}
    \cup {[DefaultCall EXCEPT !.latlabels = [kind |-> "array", val |-> <<>>]]}

\* the extent arguments format is called with
BasemapExtentCalls ==
    {[DefaultCall EXCEPT !.lonlim = a, !.boundinglat = b] :
        a \in {NoneSeq, <<-20 * Deg, 40 * Deg>>}, b \in {None, 0}}

\* the grid arguments format is called with
BasemapGridCalls ==
    {[DefaultCall EXCEPT !.longrid = a] : a \in {None, 0, 1}}

\* BasemapAxes(map_projection=obj)
BasemapConstruct ==
    /\ pc = "new"
    /\ ax.cls = "BasemapAxes"
    /\ \E obj \in Objects :
          LET s == BasemapAxesInit(obj, version)
          IN  /\ Done(s, "init", obj, DefaultCall)
              /\ pc' = IF s.raised = "" THEN "live" ELSE "failed"
    /\ UNCHANGED <<version, autoextent>>
    /\ UNCHANGED labelVars

\* ax.projection = obj
BasemapAssignProjection ==
    /\ pc = "live"
    /\ ax.cls = "BasemapAxes"
    /\ \E obj \in Objects :
          Done(BasemapSetProjection(Run(ax), obj), "projection", obj, DefaultCall)
    /\ UNCHANGED <<pc, version, autoextent>>
    /\ UNCHANGED labelVars

\* ax.format(...) with label, grid, locator or extent arguments
BasemapFormat ==
    /\ pc = "live"
    /\ \E c \in BasemapLabelCalls \cup BasemapGridCalls
                 \cup LocatorCalls \cup BasemapExtentCalls :
          Done(format(Run(ax), version, c), "format", NoneObj, c)
    /\ UNCHANGED <<pc, version, autoextent>>
    /\ UNCHANGED labelVars

BasemapNext ==
    \/ BasemapConstruct
    \/ BasemapAssignProjection
    \/ BasemapFormat

SpecBasemap == BasemapInit /\ [][BasemapNext]_vars

\* ----------------------------------- the projection of either axes class
ProjectionInit ==
    /\ pc = "new"
    /\ ax \in {NewObject("CartopyAxes"), NewObject("BasemapAxes")}
    /\ log = NoLog
    /\ raised = ""
    /\ lastcall = NoCall
    /\ version \in {17, 18}
    /\ autoextent \in BOOLEAN
    /\ LabelIdle

ProjectionNext ==
    \/ CartopyConstruct
    \/ BasemapConstruct
    \/ CartopyAssignProjection
    \/ BasemapAssignProjection

SpecProjection == ProjectionInit /\ [][ProjectionNext]_vars

\* ================================================================ claims
\* the 1-D array of a non-string labels argument
ArrayOf(l) == atleast_1d(l)

\* C1: with a boolean 2-tuple, _to_label_array turns on (left, right) as the
\* tuple says when lon is true and (bottom, top) as it says when lon is
\* false, and leaves the other two sides off, in the order
\* (left, right, bottom, top).
C1_TwoTupleSides ==
    (called /\ labels.kind = "array" /\ Len(labels.val) = 2) =>
        /\ result.raised = ""
        /\ result.array =
              IF lon THEN <<labels.val[1], labels.val[2], 0, 0>>
                     ELSE <<0, 0, labels.val[1], labels.val[2]>>

\* C2: with True, _to_label_array turns on the left side only for latitudes
\* and the bottom side only for longitudes; with False all four are off.
C2_BooleanSide ==
    (called /\ labels.kind = "scalar") =>
        /\ result.raised = ""
        /\ labels.val = <<1>> =>
              result.array = IF lon THEN <<0, 0, 1, 0>> ELSE <<1, 0, 0, 0>>
        /\ labels.val = <<0>> => result.array = <<0, 0, 0, 0>>

C2_Witness ==
    /\ called /\ labels.kind = "scalar" /\ labels.val = <<1>> /\ lon
    /\ result.array = <<0, 0, 1, 0>>

\* C3: for every string, _to_label_array returns without raising a length-4
\* array whose entry i is 1 exactly when the i-th character of 'lrbt'
\* occurs in the string, whatever the lon flag.
C3_StringSides ==
    (called /\ labels.kind = "str") =>
        /\ result.raised = ""
        /\ Len(result.array) = 4
        /\ \A i \in 1..4 :
              /\ result.array[i] \in {0, 1}
              /\ result.array[i] = 1 <=>
                    \E j \in 1..Len(labels.val) : labels.val[j] = lrbt[i]

C3_Witness ==
    /\ called /\ labels.kind = "str" /\ labels.val = <<"x", "b", "l">>
    /\ result.array = <<1, 0, 1, 0>>

\* C4: for a labels argument that is neither None nor a string,
\* _to_label_array raises ValueError naming 'lon' or 'lat' after its lon
\* flag when the length of the 1-D array is not 1, 2 or 4, and returns a
\* length-4 array when it is.
C4_LengthValidation ==
    (called /\ labels.kind \in {"scalar", "array"}) =>
        IF Len(ArrayOf(labels)) \in {1, 2, 4}
        THEN result.raised = "" /\ Len(result.array) = 4
        ELSE /\ result.raised = "ValueError"
             /\ result.name = IF lon THEN "lon" ELSE "lat"

C4_Witness ==
    /\ called /\ labels.kind = "array" /\ Len(labels.val) = 3 /\ ~lon
    /\ result.raised = "ValueError" /\ result.name = "lat"

\* whether _update_major_gridlines keeps the label arrays it is given
\* (cartopy before 0.18 labels Mercator and PlateCarree only)
LabelsKept == version >= 18 \/ ax._map_projection.cls \in {"Mercator", "PlateCarree"}

\* C5: on a CartopyAxes, each entry of a boolean 4-tuple given as lonlabels
\* or as latlabels sets the gridliner label toggle of its own side, in the
\* order (left, right, bottom, top).
C5_FourTupleOwnSides ==
    (/\ pc = "live" /\ lastcall.op = "format" /\ raised = ""
     /\ lastcall.call.labels = NoLabels
     /\ LabelsKept) =>
        LET c == lastcall.call
            gl == ax._gridlines_major
            toggles == <<gl.left_labels, gl.right_labels,
                         gl.bottom_labels, gl.top_labels>>
        IN  /\ (c.lonlabels \in FourTuples /\ c.latlabels = NoLabels) =>
                  toggles = c.lonlabels.val
            /\ (c.latlabels \in FourTuples /\ c.lonlabels = NoLabels) =>
                  toggles = c.latlabels.val

\* the label arrays format hands to _update_major_gridlines
LonArray(c) == to_label_array(not_none(c.lonlabels, c.labels), TRUE).array

LatArray(c) == to_label_array(not_none(c.latlabels, c.labels), FALSE).array

\* C6: on a BasemapAxes, drawmeridians and drawparallels get the label array
\* in the order (left, right, top, bottom): the bottom and top entries of
\* the (left, right, bottom, top) array are swapped, left and right stay,
\* the array of the caller is as it was, and swapping again gives the
\* array of the caller back.
C6_BasemapOrder ==
    (/\ pc = "live" /\ ax.cls = "BasemapAxes"
     /\ lastcall.op = "format" /\ raised = "") =>
        LET lonarray == LonArray(lastcall.call)
            latarray == LatArray(lastcall.call)
        IN  /\ Len(log.arrays) = 4
            /\ log.arrays[1] = lonarray
            /\ log.arrays[2] = latarray
            /\ \A i \in 1..Len(log.draw) :
                  LET d == log.draw[i]
                      array == IF d.method = "drawmeridians"
                               THEN lonarray ELSE latarray
                  IN  d.which = "major" =>
                        /\ d.labels[1] = array[1]
                        /\ d.labels[2] = array[2]
                        /\ d.labels[3] = array[4]
                        /\ d.labels[4] = array[3]
                        /\ lrbt_to_lrtb(d.labels) = array

C6_Witness ==
    /\ pc = "live" /\ ax.cls = "BasemapAxes"
    /\ lastcall.op = "format" /\ raised = ""
    /\ lastcall.call.lonlabels = [kind |-> "array", val |-> <<1, 0, 1, 0>>]
    /\ \E i \in 1..Len(log.draw) :
          /\ log.draw[i].method = "drawmeridians"
          /\ log.draw[i].which = "major"
          /\ log.draw[i].labels = <<1, 0, 0, 1>>
    /\ log.arrays[1] = <<1, 0, 1, 0>>

\* C7: constructing a CartopyAxes with an object that is not a cartopy
\* Projection, or a BasemapAxes with one that is not a Basemap, raises
\* ValueError and leaves the object without any attribute; assigning an
\* object the BasemapAxes.projection setter does not take (one that is not
\* a Basemap), or one the CartopyAxes.projection setter does not take,
\* raises ValueError and leaves the axes, _map_projection included, as they
\* were.
C7_InvalidProjectionRejected ==
    [][ /\ (/\ lastcall'.op = "init"
            /\ \/ ax.cls = "CartopyAxes" /\ ~IsProjection(lastcall'.obj)
               \/ ax.cls = "BasemapAxes" /\ ~IsBasemap(lastcall'.obj)) =>
              /\ raised' = "ValueError"
              /\ pc' = "failed"
              /\ ax' = NewObject(ax.cls)
        /\ (/\ lastcall'.op = "projection"
            /\ \/ ax.cls = "BasemapAxes" /\ ~IsBasemap(lastcall'.obj)
               \/ ax.cls = "CartopyAxes" /\ ~IsCRS(lastcall'.obj)) =>
              /\ raised' = "ValueError"
              /\ ax' = ax
              /\ ax'._map_projection = ax._map_projection
      ]_vars

C7_Witness ==
    /\ pc = "live" /\ ax.cls = "BasemapAxes"
    /\ lastcall.op = "projection" /\ ~IsBasemap(lastcall.obj)
    /\ raised = "ValueError"

\* C8: in every state of a constructed CartopyAxes, whatever has been
\* assigned to the projection property, CartopyAxes.projection is a
\* cartopy Projection.
C8_ProjectionIsProjection ==
    (pc = "live" /\ ax.cls = "CartopyAxes") => IsProjection(ax._map_projection)

\* C9: when a CartopyAxes has been constructed with a polar projection while
\* rc['cartopy.autoextent'] is false, set_extent has been called with the
\* default bounding latitude of the projection and _boundinglat holds it.
C9_PolarDefaultBoundinglat ==
    (/\ pc = "live" /\ ax.cls = "CartopyAxes" /\ lastcall.op = "init"
     /\ ~autoextent /\ lastcall.obj.cls \in proj_polar) =>
        /\ ax._boundinglat = DefaultBoundinglat(lastcall.obj)
        /\ \E i \in 1..Len(log.set_extent) :
              log.set_extent[i][3] = DefaultBoundinglat(lastcall.obj)

\* C10: in a format call on a CartopyAxes, _update_extent goes by the kind
\* of projection.  On a north or south polar projection lonlim and latlim
\* do not reach the extent: a warning is issued exactly when one of them is
\* given, set_extent is called only when boundinglat is given, and the
\* extent it gets is made of lon0, boundinglat and the pole.  On any other
\* projection boundinglat reaches neither the extent nor _boundinglat: a
\* warning is issued exactly when it is given, set_extent is called only
\* when lonlim or latlim is given, and the extent it gets is made of lon0,
\* lonlim and latlim.
C10_ExtentByProjectionKind ==
    [][ (lastcall'.op = "format" /\ ax.cls = "CartopyAxes" /\ raised' = "") =>
          LET c == lastcall'.call
              lon0 == ax._map_projection.lon_0
              given == c.lonlim # NoneSeq \/ c.latlim # NoneSeq
          IN  IF ax._map_projection.cls \in proj_north \cup proj_south
              THEN /\ log'.warnings = IF given THEN 1 ELSE 0
                   /\ c.boundinglat = None =>
                         /\ log'.set_extent = <<>>
                         /\ ax'.extent = ax.extent
                         /\ ax'._boundinglat = ax._boundinglat
                   /\ log'.set_extent # <<>> =>
                         /\ log'.set_extent =
                               << <<lon0 - 180 * Deg + Eps, lon0 + 180 * Deg - Eps,
                                    c.boundinglat,
                                    IF ax._map_projection.cls \in proj_north
                                    THEN 90 * Deg ELSE -90 * Deg>> >>
                         /\ ax'.extent = log'.set_extent[1]
                   /\ log'.set_extent = <<>> => ax'.extent = ax.extent
              ELSE /\ log'.warnings = IF c.boundinglat # None THEN 1 ELSE 0
                   /\ ax'._boundinglat = ax._boundinglat
                   /\ ~given => log'.set_extent = <<>> /\ ax'.extent = ax.extent
                   /\ given =>
                         /\ Len(log'.set_extent) = 1
                         /\ ax'.extent = log'.set_extent[1]
                         /\ \A b \in BoundingLats :
                               log'.set_extent[1] =
                                 update_extent(Run(ax), c.lonlim, c.latlim, b)
                                   .ax.extent
      ]_vars

C10_Witness ==
    /\ pc = "live" /\ ax.cls = "CartopyAxes" /\ lastcall.op = "format"
    /\ ax._map_projection.cls \in proj_polar
    /\ lastcall.call.lonlim # NoneSeq /\ lastcall.call.boundinglat = None
    /\ log.warnings = 1 /\ log.set_extent = <<>>
    /\ ax.extent # NoneSeq

\* C11: on a BasemapAxes, _update_extent changes nothing whatever lonlim,
\* latlim and boundinglat are: a format call leaves the axes as the same
\* call without the three arguments leaves them, the longitude and latitude
\* view intervals set in __init__ stay as they are in every step that
\* follows construction, and a warning is issued exactly when one of the
\* three arguments is not None.
C11_BasemapExtentNoOp ==
    [][ (pc = "live" /\ ax.cls = "BasemapAxes") =>
          /\ ax'._lonaxis._interval = ax._lonaxis._interval
          /\ ax'._lataxis._interval = ax._lataxis._interval
          /\ (lastcall'.op = "format" /\ raised' = "") =>
                LET c == lastcall'.call
                    bare == [c EXCEPT !.lonlim = NoneSeq, !.latlim = NoneSeq,
                                      !.boundinglat = None]
                    given == \/ c.lonlim # NoneSeq \/ c.latlim # NoneSeq
                             \/ c.boundinglat # None
                IN  /\ ax' = format(Run(ax), version, bare).ax
                    /\ log'.warnings = IF given THEN 1 ELSE 0
      ]_vars

C11_Witness ==
    /\ pc = "live" /\ ax.cls = "BasemapAxes"
    /\ lastcall.op = "format" /\ raised = ""
    /\ lastcall.call.lonlim # NoneSeq /\ lastcall.call.boundinglat # None
    /\ log.warnings = 1
    /\ ax._lonaxis._interval = <<-180 * Deg, 180 * Deg>>
    /\ ax._lataxis._interval = <<60 * Deg, 90 * Deg>>

\* whether the last operation drew the major lines of an axis anew
Redrawn(method) ==
    \E i \in 1..Len(log.draw) :
        log.draw[i].method = method /\ log.draw[i].which = "major"

\* C12: when a gridline update of a BasemapAxes is over, isDefault_majloc and
\* isDefault_majfmt are True on the longitude and on the latitude axis, and
\* a major locator or formatter that format has set on an axis has had the
\* major lines of that axis drawn anew in that update.
C12_DirtyFlagsCleared ==
    (/\ pc = "live" /\ ax.cls = "BasemapAxes"
     /\ lastcall.op \in {"init", "format"} /\ raised = "") =>
        LET c == lastcall.call
        IN  /\ ax._lonaxis.isDefault_majloc /\ ax._lonaxis.isDefault_majfmt
            /\ ax._lataxis.isDefault_majloc /\ ax._lataxis.isDefault_majfmt
            /\ (c.lonlocator # None \/ c.lonformatter # None) =>
                  Redrawn("drawmeridians")
            /\ (c.latlocator # None \/ c.latformatter # None) =>
                  Redrawn("drawparallels")

C12_Witness ==
    /\ pc = "live" /\ ax.cls = "BasemapAxes"
    /\ lastcall.op = "format" /\ raised = ""
    /\ lastcall.call.latformatter # None /\ lastcall.call.lonlocator = None
    /\ lastcall.call.lonminorlocator = None
    /\ Redrawn("drawparallels") /\ ~Redrawn("drawmeridians")
    /\ ax._lataxis.isDefault_majfmt

\* C13: on a CartopyAxes whose projection is not polar, a format call has
\* _update_extent call set_extent once when lonlim or latlim is given and
\* not at all when neither is; the extent is
\* [lonmin + eps, lonmax, latmin, latmax], where a missing pair or a None
\* bound stands for lon0 - 180, lon0 + 180, -90 and 90, eps is added to the
\* lower longitude also when the caller gave it, and lonlim and latlim of
\* the caller are as they were.
C13_RectangularExtent ==
    [][ (/\ lastcall'.op = "format" /\ ax.cls = "CartopyAxes" /\ raised' = ""
         /\ ax._map_projection.cls \notin proj_polar) =>
          LET c == lastcall'.call
              lon0 == ax._map_projection.lon_0
              lonmin == IF c.lonlim = NoneSeq \/ c.lonlim[1] = None
                        THEN lon0 - 180 * Deg ELSE c.lonlim[1]
              lonmax == IF c.lonlim = NoneSeq \/ c.lonlim[2] = None
                        THEN lon0 + 180 * Deg ELSE c.lonlim[2]
              latmin == IF c.latlim = NoneSeq \/ c.latlim[1] = None
                        THEN -90 * Deg ELSE c.latlim[1]
              latmax == IF c.latlim = NoneSeq \/ c.latlim[2] = None
                        THEN 90 * Deg ELSE c.latlim[2]
          IN  IF c.lonlim # NoneSeq \/ c.latlim # NoneSeq
              THEN /\ log'.set_extent = << <<lonmin + Eps, lonmax, latmin, latmax>> >>
                   /\ log'.lims = <<c.lonlim, c.latlim>>
              ELSE log'.set_extent = <<>>
      ]_vars

C13_Witness ==
    /\ pc = "live" /\ ax.cls = "CartopyAxes" /\ lastcall.op = "format"
    /\ ax._map_projection = Crs("PlateCarree", 90 * Deg)
    /\ lastcall.call.lonlim = <<-20 * Deg, 40 * Deg>>
    /\ lastcall.call.latlim = NoneSeq
    /\ log.set_extent = << <<-20 * Deg + Eps, 40 * Deg, -90 * Deg, 90 * Deg>> >>

\* a gridliner with its longitude and latitude lines and its four label
\* toggles off
AllOff(gl) ==
    /\ gl.xlines = 0 /\ gl.ylines = 0
    /\ gl.left_labels = 0 /\ gl.right_labels = 0
    /\ gl.bottom_labels = 0 /\ gl.top_labels = 0

\* C14: a CartopyAxes creates one major and one minor gridliner, in its
\* constructor, where both start with the longitude and latitude lines and
\* the four label toggles off; no format call and no set_extent call that
\* follows creates another: they go on with the two that are cached.
C14_GridlinersCreatedOnce ==
    [][ ax.cls = "CartopyAxes" =>
          /\ (lastcall'.op = "init" /\ raised' = "") =>
                /\ log'.gridliners = <<"major", "minor">>
                /\ AllOff(ax'._gridlines_major)
                /\ AllOff(ax'._gridlines_minor)
          /\ pc = "live" =>
                /\ log'.gridliners = <<>>
                /\ ax'._gridlines_major # NoneObj
                /\ ax'._gridlines_minor # NoneObj
      ]_vars

C14_Witness ==
    /\ pc = "live" /\ ax.cls = "CartopyAxes"
    /\ lastcall.op = "set_extent" /\ log.gridliners = <<>>
    /\ ax._gridlines_major.xlines = 1
    /\ ax._gridlines_major.bottom_labels = 1
    /\ ax._gridlines_minor.xlines = 1
    /\ ax.extent = <<-20 * Deg, 40 * Deg, 10 * Deg, 50 * Deg>>

\* C15: when rc['reso'] is not a key of CARTOPY_RESOS, the format call of a
\* CartopyAxes raises ValueError from _update_features with the valid
\* options in its message, no feature has been created, hidden or restyled
\* by the call, no feature attribute of the axes has changed, and the
\* gridlines that format updates after the features are as they were.
C15_ResoValidatedFirst ==
    [][ (pc = "live" /\ lastcall'.op = "format"
         /\ lastcall'.call.reso \notin CARTOPY_RESOS) =>
          /\ raised' = "ValueError"
          /\ log'.options = {"lo", "med", "hi", "x-hi", "xx-hi"}
          /\ log'.features = <<>>
          /\ ax'.features = ax.features
          /\ ax'._gridlines_major = ax._gridlines_major
          /\ ax'._gridlines_minor = ax._gridlines_minor
      ]_vars

C15_Witness ==
    /\ pc = "live" /\ lastcall.op = "format"
    /\ lastcall.call.reso = "110m" /\ lastcall.call.land = 0
    /\ lastcall.call.coast = 1
    /\ raised = "ValueError"
    /\ ax.features["land"] # NoneObj /\ ax.features["land"].visible = 1
    /\ ax.features["coast"] = NoneObj

====
